---- MODULE Spec2Model ----
(***************************************************************************)
(* Seat reservation of the event booking API.                              *)
(*                                                                         *)
(* State: the two tables of the migration (events, bookings), the row     *)
(* locks and uncommitted rows of the open PostgreSQL transactions, the     *)
(* bookings id sequence, the pg connection pool, and, for every reserve    *)
(* call, its position in createBooking and its local variables.            *)
(*                                                                         *)
(* One action is one storage statement together with the JavaScript that   *)
(* runs after its await up to the next await (Node runs that part without  *)
(* interleaving).  COMMIT is split in two: the server's commit and the     *)
(* client's receipt of the answer, because the connection can fail in      *)
(* between.  Transactions run at PostgreSQL's default READ COMMITTED.      *)
(***************************************************************************)
EXTENDS Integers, FiniteSets, Sequences, TLC

\* ---------------------------------------------------------------- bounds
\* Number of reserve calls issued in one behaviour.
NumCalls == 2
\* Largest total_seats of a seeded event.
MaxSeats == 2
\* Largest pool size (the pool's max option).  The code configures max: 20;
\* the model scales it to the number of calls so that both an exhausted pool
\* and concurrent transactions are reachable.
PoolMax == 2
\* Number of times gracefulShutdown is invoked (SIGTERM, SIGINT and the
\* uncaughtException handler all call it, and nothing stops a second call).
MaxSignals == 2

Calls == 1..NumCalls

\* The migration seeds a fixed list of events whose ids come from the events
\* id sequence (capacities 100, 500, 30); the model seeds two events, the
\* first with one seat and the second with MaxSeats seats.
SeedSeats == <<1, MaxSeats>>
Events == DOMAIN SeedSeats
\* An id that matches no row of events.
MissingEvent == Len(SeedSeats) + 1
EventIds == Events \cup {MissingEvent}

\* user_id values (opaque strings).
Users == {"alice", "bob"}

\* Inputs the request validators turn away but a direct caller of the
\* service or the repository can pass: an eventId that is not positive, an
\* empty userId, a userId longer than the user_id column.
InvalidEventId == 0
EmptyUser == ""
LongUser == "u256"
\* user_id VARCHAR(255)
MaxUserIdLength == 255
\* userId.length
UserIdLength(u) ==
    CASE u = EmptyUser -> 0
      [] u = LongUser -> MaxUserIdLength + 1
      [] u = "alice" -> 5
      [] OTHER -> 3
DirectEventIds == EventIds \cup {InvalidEventId}
DirectUsers == Users \cup {EmptyUser, LongUser}
\* What createBookingSchema accepts: event_id a positive integer, user_id of
\* 1 to 255 characters.
ValidInput(e, u) ==
    /\ e > 0
    /\ UserIdLength(u) >= 1
    /\ UserIdLength(u) <= MaxUserIdLength

\* The deployments: the Express service checks the event before calling the
\* repository, the NestJS service calls the repository directly.
Impls == {"express", "nest"}

VARIABLES
    impl,         \* which entry point runs: "express" or "nest"
    total_seats,  \* events.total_seats, per event id
    bookings,     \* committed rows of the bookings table
    pending,      \* per call: the uncommitted rows of its transaction
    lockHolder,   \* per event: the calls whose transaction holds the row lock
    nextId,       \* next value of the bookings id sequence
    poolSize,     \* the pool's max option
    checkedOut,   \* number of pool clients checked out
    pc,           \* per call: the statement it is about to run
    ev,           \* per call: eventId
    usr,          \* per call: userId
    cnt,          \* per call: currentBookings
    err,          \* per call: the error caught by the catch block
    ins,          \* per call: insertResult.rows[0].id (0 before the INSERT)
    outcome,      \* per call: what the call returned or threw
    prior,        \* per call (history): when it arrived, a reserve of the
                  \* same pair had already returned successfully
    retry,        \* per call (history): when it arrived, a reserve of the
                  \* same pair had ended with a storage error although its
                  \* transaction had committed
    env           \* what surrounds the calls: the storage clock and the
                  \* process with its HTTP server (fields below)

vars == <<impl, poolSize, total_seats, bookings, pending, lockHolder, nextId,
          checkedOut, pc, ev, usr, cnt, err, ins, outcome, prior, retry,
          env>>

\* The storage clock, in ticks.
now == env.now

\* Per call: the start time of its transaction, which is what
\* CURRENT_TIMESTAMP gives the created_at default.
ts == env.ts

\* The HTTP server: "listening", "closing" or "closed".
server == env.server

\* The number of gracefulShutdown invocations so far.
signals == env.signals

\* The pool: "open", "ending" (pool.end() called) or "ended".
poolEnd == env.poolEnd

\* The process: "running", "exit0" or "exit1".
proc == env.proc

\* The process after app.listen, before any transaction has begun.
envInit ==
    [now |-> 0, ts |-> [c \in Calls |-> 0], server |-> "listening",
     signals |-> 0, poolEnd |-> "open", proc |-> "running"]

dbVars == <<bookings, pending, lockHolder, nextId>>

\* -------------------------------------------------------------- storage

\* A row of bookings (created_at is not modelled here).
Row(i, e, u) == [id |-> i, event_id |-> e, user_id |-> u]

\* SELECT COUNT(*) FROM bookings WHERE event_id = e, run inside the
\* transaction of call c: the committed rows and the transaction's own.
CountQuery(c, e) ==
    Cardinality({r \in bookings \cup pending[c] : r.event_id = e})

\* Number of committed bookings of event e.
CountBookings(e) == Cardinality({r \in bookings : r.event_id = e})

\* CONSTRAINT unique_user_event UNIQUE (event_id, user_id): a committed row
\* with the same pair makes the INSERT fail with 23505.
UniqueViolation(e, u) ==
    \E r \in bookings : r.event_id = e /\ r.user_id = u

\* An uncommitted row with the same pair in another transaction makes the
\* INSERT wait for that transaction to end.
UniqueWait(c, e, u) ==
    \E d \in Calls \ {c} : \E r \in pending[d] :
        r.event_id = e /\ r.user_id = u

\* Row locks and uncommitted rows of call c's transaction go away when the
\* transaction ends (COMMIT, ROLLBACK, or the server losing the connection).
ReleaseLocks(c) == [e \in Events |-> lockHolder[e] \ {c}]

\* --------------------------------------------------------------- reads

\* Values as the JavaScript caller sees them: the type and the text.
jsNumber(n) == [typeof |-> "number", text |-> ToString(n)]
jsString(t) == [typeof |-> "string", text |-> t]
\* node-postgres hands an int8 column (COUNT(...), and integer - COUNT(...))
\* to JavaScript as its decimal string; createBooking declares its count as
\* { count: string } and parses it.
pgInt8(n) == jsString(ToString(n))
\* parseInt(v, 10) of such a value.
parseInt(v) == CHOOSE n \in (0 - NumCalls)..(MaxSeats + NumCalls) : ToString(n) = v.text
\* throw new NotFoundError(...)
NotFoundError == [typeof |-> "NotFoundError", text |-> "not found"]

\* FROM events e LEFT JOIN bookings b ON e.id = b.event_id WHERE e.id = $1:
\* one row per booking of the event, and one row with b.id NULL (0 here:
\* ids start at 1) for an event without bookings; no row without the event.
LeftJoinBookings(e) ==
    IF e \notin Events THEN {}
    ELSE IF \E r \in bookings : r.event_id = e
         THEN {[e_id |-> e, total_seats |-> total_seats[e], b_id |-> r.id] :
                  r \in {b \in bookings : b.event_id = e}}
         ELSE {[e_id |-> e, total_seats |-> total_seats[e], b_id |-> 0]}

\* EventRepository.getAvailableSeats: e.total_seats - COUNT(b.id) over the
\* join, grouped by event; NotFoundError when the result has no row; the
\* column is returned as received.
getAvailableSeats(e) ==
    LET rows == LeftJoinBookings(e) IN
    IF rows = {} THEN NotFoundError
    ELSE pgInt8(total_seats[e] - Cardinality({r \in rows : r.b_id # 0}))

\* checkBookingExists with the user_id condition left out of the WHERE.
checkBookingExistsAnyUser(e, u) ==
    \E r \in bookings : r.event_id = e

\* BookingRepository.checkBookingExists.
checkBookingExists(e, u) ==
    \E r \in bookings : r.event_id = e /\ r.user_id = u

\* BookingRepository.getBookingsByEventId (as a set; the order is not
\* modelled here).
getBookingsByEventId(e) == {r \in bookings : r.event_id = e}

\* getBookingsByUserId reading uncommitted rows as well.
getBookingsByUserIdDirty(u) ==
    {r \in bookings \cup UNION {pending[c] : c \in Calls} : r.user_id = u}

\* BookingRepository.getBookingsByUserId (as a set; the order is not modelled
\* here): result.rows, empty when no row matches.
getBookingsByUserId(u) == {r \in bookings : r.user_id = u}

\* ----------------------------------------------------------------- init

\* The user ids that calls have used so far.
UsedUsers == {usr[c] : c \in {d \in Calls : pc[d] # "idle"}}

\* User ids are interchangeable: a new call uses an id seen before or the
\* first unused one.
NextUsers ==
    IF Users \subseteq UsedUsers THEN Users
    ELSE (UsedUsers \cap Users) \cup {CHOOSE u \in Users \ UsedUsers : TRUE}

\* The seed data without the CHECK (total_seats > 0) of the events table:
\* an event with no seats can be stored.
InitWithoutCheck ==
    /\ impl \in Impls
    /\ poolSize \in 1..PoolMax
    /\ total_seats \in [Events -> 0..MaxSeats]
    /\ bookings = {}
    /\ pending = [c \in Calls |-> {}]
    /\ lockHolder = [e \in Events |-> {}]
    /\ nextId = 1
    /\ checkedOut = 0
    /\ pc = [c \in Calls |-> "idle"]
    /\ ev = [c \in Calls |-> MissingEvent]
    /\ usr = [c \in Calls |-> "alice"]
    /\ cnt = [c \in Calls |-> 0]
    /\ err = [c \in Calls |-> "none"]
    /\ ins = [c \in Calls |-> 0]
    /\ outcome = [c \in Calls |-> "none"]
    /\ prior = [c \in Calls |-> FALSE]
    /\ retry = [c \in Calls |-> FALSE]
    /\ env = envInit

Init ==
    /\ impl \in Impls
    /\ poolSize \in 1..PoolMax
    /\ total_seats = [e \in Events |-> SeedSeats[e]]
    /\ bookings = {}
    /\ pending = [c \in Calls |-> {}]
    /\ lockHolder = [e \in Events |-> {}]
    /\ nextId = 1
    /\ checkedOut = 0
    /\ pc = [c \in Calls |-> "idle"]
    /\ ev = [c \in Calls |-> MissingEvent]
    /\ usr = [c \in Calls |-> "alice"]
    /\ cnt = [c \in Calls |-> 0]
    /\ err = [c \in Calls |-> "none"]
    /\ ins = [c \in Calls |-> 0]
    /\ outcome = [c \in Calls |-> "none"]
    /\ prior = [c \in Calls |-> FALSE]
    /\ retry = [c \in Calls |-> FALSE]
    /\ env = envInit

\* The call has returned or thrown: its locals are gone.
Finish(c, result) ==
    /\ pc' = [pc EXCEPT ![c] = "done"]
    /\ outcome' = [outcome EXCEPT ![c] = result]
    /\ cnt' = [cnt EXCEPT ![c] = 0]
    /\ err' = [err EXCEPT ![c] = "none"]

\* ------------------------------------------------------------- actions

\* createBooking(eventId, userId) is invoked.  Calls are numbered in the
\* order of their arrival.
Invoke(c, e, u) ==
    /\ pc[c] = "idle"
    /\ \A d \in Calls : d < c => pc[d] # "idle"
    /\ ev' = [ev EXCEPT ![c] = e]
    /\ usr' = [usr EXCEPT ![c] = u]
    /\ pc' = [pc EXCEPT ![c] = IF impl = "express" THEN "precheck" ELSE "connect"]
    /\ prior' = [prior EXCEPT ![c] =
           \E d \in Calls : outcome[d] = "Success" /\ ev[d] = e /\ usr[d] = u]
    /\ retry' = [retry EXCEPT ![c] =
           \E d \in Calls :
               /\ outcome[d] = "StorageError" /\ ev[d] = e /\ usr[d] = u
               /\ ins[d] # 0 /\ Row(ins[d], e, u) \in bookings]
    /\ UNCHANGED <<impl, poolSize, total_seats, dbVars, checkedOut, cnt, err, ins, outcome,
                   env>>

\* A request arrives with (eventId, userId) and has passed the validator of
\* the route.
Start(c, e, u) ==
    /\ pc[c] = "idle"
    /\ u \in NextUsers
    /\ Invoke(c, e, u)

\* The service or the repository is called directly, with an input the
\* validator would have turned away.
StartDirect(c, e, u) ==
    /\ pc[c] = "idle"
    /\ ~ValidInput(e, u)
    /\ u \in Users => u \in NextUsers
    /\ Invoke(c, e, u)

\* BookingService.createBooking (Express): eventRepository.getEventById,
\* a pool.query outside any transaction, throws NotFoundError.
PreCheck(c) ==
    /\ UNCHANGED <<prior, retry, env>>
    /\ pc[c] = "precheck"
    /\ checkedOut < poolSize
    /\ IF ev[c] \in Events
       THEN /\ pc' = [pc EXCEPT ![c] = "connect"]
            /\ UNCHANGED <<outcome, cnt, err>>
       ELSE Finish(c, "NotFound")
    /\ UNCHANGED <<impl, poolSize, total_seats, dbVars, checkedOut, ev, usr, ins>>

\* const client = await pool.connect()
Connect(c) ==
    /\ UNCHANGED <<prior, retry, env>>
    /\ pc[c] = "connect"
    /\ checkedOut < poolSize
    /\ checkedOut' = checkedOut + 1
    /\ pc' = [pc EXCEPT ![c] = "begin"]
    /\ UNCHANGED <<impl, poolSize, total_seats, dbVars, ev, usr, cnt, err, ins, outcome>>

\* connectionTimeoutMillis: no client came free in time; pool.connect (or
\* the pool.query of the pre-check) rejects, outside the try block.
ConnectTimeout(c) ==
    /\ UNCHANGED <<prior, retry, env>>
    /\ pc[c] \in {"precheck", "connect"}
    /\ checkedOut >= poolSize
    /\ Finish(c, "StorageError")
    /\ UNCHANGED <<impl, poolSize, total_seats, dbVars, checkedOut, ev, usr, ins>>

\* await client.query('BEGIN'), apart from the clock.
BeginTxn(c) ==
    /\ UNCHANGED <<prior, retry>>
    /\ pc[c] = "begin"
    /\ pc' = [pc EXCEPT ![c] = "lock"]
    /\ UNCHANGED <<impl, poolSize, total_seats, dbVars, checkedOut, ev, usr, cnt, err, ins, outcome>>

\* await client.query('BEGIN'), with the time left out (the rows' created_at
\* is not observed).
Begin(c) ==
    /\ BeginTxn(c)
    /\ UNCHANGED env

\* await client.query('BEGIN') at a moment of the storage clock: the
\* transaction's start time is what CURRENT_TIMESTAMP returns until it ends.
BeginAt(c) ==
    /\ BeginTxn(c)
    /\ env' = [env EXCEPT !.now = now + 1, !.ts[c] = now + 1]

\* Lock with the FOR UPDATE clause left out: the SELECT neither waits for
\* nor takes the row lock.
LockNoForUpdate(c) ==
    /\ UNCHANGED <<prior, retry, env>>
    /\ pc[c] = "lock"
    /\ IF ev[c] \in Events
       THEN /\ pc' = [pc EXCEPT ![c] = "count"]
            /\ UNCHANGED err
       ELSE /\ err' = [err EXCEPT ![c] = "NotFound"]
            /\ pc' = [pc EXCEPT ![c] = "rollback"]
    /\ UNCHANGED <<impl, poolSize, total_seats, dbVars, checkedOut,
                   ev, usr, cnt, ins, outcome>>

\* Lock throwing the ConflictError instead of the NotFoundError when the
\* event row is absent.
LockWrongError(c) ==
    /\ UNCHANGED <<prior, retry, env>>
    /\ pc[c] = "lock"
    /\ IF ev[c] \in Events
       THEN /\ lockHolder[ev[c]] = {}
            /\ lockHolder' = [lockHolder EXCEPT ![ev[c]] = {c}]
            /\ pc' = [pc EXCEPT ![c] = "count"]
            /\ UNCHANGED err
       ELSE /\ err' = [err EXCEPT ![c] = "NoSeats"]
            /\ pc' = [pc EXCEPT ![c] = "rollback"]
            /\ UNCHANGED lockHolder
    /\ UNCHANGED <<impl, poolSize, total_seats, bookings, pending, nextId, checkedOut,
                   ev, usr, cnt, ins, outcome>>

\* SELECT ... FROM events WHERE id = $1 FOR UPDATE, then the rows.length
\* check.  The statement waits while another transaction holds the row.
Lock(c) ==
    /\ UNCHANGED <<prior, retry, env>>
    /\ pc[c] = "lock"
    /\ IF ev[c] \in Events
       THEN /\ lockHolder[ev[c]] = {}
            /\ lockHolder' = [lockHolder EXCEPT ![ev[c]] = {c}]
            /\ pc' = [pc EXCEPT ![c] = "count"]
            /\ UNCHANGED err
       ELSE /\ err' = [err EXCEPT ![c] = "NotFound"]
            /\ pc' = [pc EXCEPT ![c] = "rollback"]
            /\ UNCHANGED lockHolder
    /\ UNCHANGED <<impl, poolSize, total_seats, bookings, pending, nextId, checkedOut,
                   ev, usr, cnt, ins, outcome>>

\* Count with the capacity check written > instead of >=.
CountOffByOne(c) ==
    /\ UNCHANGED <<prior, retry, env>>
    /\ pc[c] = "count"
    /\ cnt' = [cnt EXCEPT ![c] = CountQuery(c, ev[c])]
    /\ IF cnt'[c] > total_seats[ev[c]]
       THEN /\ err' = [err EXCEPT ![c] = "NoSeats"]
            /\ pc' = [pc EXCEPT ![c] = "rollback"]
       ELSE /\ pc' = [pc EXCEPT ![c] = "insert"]
            /\ UNCHANGED err
    /\ UNCHANGED <<impl, poolSize, total_seats, dbVars, checkedOut, ev, usr, ins, outcome>>

\* SELECT COUNT(*) ..., parseInt, and the capacity check.
Count(c) ==
    /\ UNCHANGED <<prior, retry, env>>
    /\ pc[c] = "count"
    /\ cnt' = [cnt EXCEPT ![c] = CountQuery(c, ev[c])]
    /\ IF cnt'[c] >= total_seats[ev[c]]
       THEN /\ err' = [err EXCEPT ![c] = "NoSeats"]
            /\ pc' = [pc EXCEPT ![c] = "rollback"]
       ELSE /\ pc' = [pc EXCEPT ![c] = "insert"]
            /\ UNCHANGED err
    /\ UNCHANGED <<impl, poolSize, total_seats, dbVars, checkedOut, ev, usr, ins, outcome>>

\* Insert into a table without the unique_user_event constraint.
InsertNoUnique(c) ==
    /\ UNCHANGED <<prior, retry, env>>
    /\ pc[c] = "insert"
    /\ nextId' = nextId + 1
    /\ pending' = [pending EXCEPT ![c] = {Row(nextId, ev[c], usr[c])}]
    /\ ins' = [ins EXCEPT ![c] = nextId]
    /\ pc' = [pc EXCEPT ![c] = "commit"]
    /\ UNCHANGED <<impl, poolSize, total_seats, bookings, lockHolder, checkedOut,
                   ev, usr, cnt, err, outcome>>

\* Insert outside the transaction (no BEGIN in effect): the row is visible
\* as soon as the INSERT returns.
InsertAutocommit(c) ==
    /\ UNCHANGED <<prior, retry, env>>
    /\ pc[c] = "insert"
    /\ ~UniqueWait(c, ev[c], usr[c])
    /\ nextId' = nextId + 1
    /\ IF UniqueViolation(ev[c], usr[c])
       THEN /\ err' = [err EXCEPT ![c] = "23505"]
            /\ pc' = [pc EXCEPT ![c] = "rollback"]
            /\ UNCHANGED <<bookings, ins>>
       ELSE /\ bookings' = bookings \cup {Row(nextId, ev[c], usr[c])}
            /\ ins' = [ins EXCEPT ![c] = nextId]
            /\ pc' = [pc EXCEPT ![c] = "commit"]
            /\ UNCHANGED err
    /\ UNCHANGED <<impl, poolSize, total_seats, pending, lockHolder, checkedOut,
                   ev, usr, cnt, outcome>>

\* INSERT INTO bookings (event_id, user_id) ... RETURNING id, ...
\* The id default draws from the sequence before the constraint is checked.
\* A user_id longer than the column is refused with 22001 (value too long);
\* an empty one is stored like any other string.  An event_id without event
\* is refused by the foreign key with 23503.
Insert(c) ==
    /\ UNCHANGED <<prior, retry, env>>
    /\ pc[c] = "insert"
    /\ ~UniqueWait(c, ev[c], usr[c])
    /\ nextId' = nextId + 1
    /\ IF UserIdLength(usr[c]) > MaxUserIdLength
       THEN /\ err' = [err EXCEPT ![c] = "22001"]
            /\ pc' = [pc EXCEPT ![c] = "rollback"]
            /\ UNCHANGED <<pending, ins>>
       ELSE IF ev[c] \notin Events
       THEN /\ err' = [err EXCEPT ![c] = "23503"]
            /\ pc' = [pc EXCEPT ![c] = "rollback"]
            /\ UNCHANGED <<pending, ins>>
       ELSE IF UniqueViolation(ev[c], usr[c])
       THEN /\ err' = [err EXCEPT ![c] = "23505"]
            /\ pc' = [pc EXCEPT ![c] = "rollback"]
            /\ UNCHANGED <<pending, ins>>
       ELSE /\ pending' = [pending EXCEPT ![c] = {Row(nextId, ev[c], usr[c])}]
            /\ ins' = [ins EXCEPT ![c] = nextId]
            /\ pc' = [pc EXCEPT ![c] = "commit"]
            /\ UNCHANGED err
    /\ UNCHANGED <<impl, poolSize, total_seats, bookings, lockHolder, checkedOut,
                   ev, usr, cnt, outcome>>

\* COMMIT that makes the rows visible but leaves the row lock in place.
CommitKeepsLock(c) ==
    /\ UNCHANGED <<prior, retry, env>>
    /\ pc[c] = "commit"
    /\ bookings' = bookings \cup pending[c]
    /\ pending' = [pending EXCEPT ![c] = {}]
    /\ pc' = [pc EXCEPT ![c] = "committed"]
    /\ UNCHANGED <<impl, poolSize, total_seats, lockHolder, nextId, checkedOut,
                   ev, usr, cnt, err, ins, outcome>>

\* The server executes COMMIT: the transaction's rows become visible and
\* its locks are released.
Commit(c) ==
    /\ UNCHANGED <<prior, retry, env>>
    /\ pc[c] = "commit"
    /\ bookings' = bookings \cup pending[c]
    /\ pending' = [pending EXCEPT ![c] = {}]
    /\ lockHolder' = ReleaseLocks(c)
    /\ pc' = [pc EXCEPT ![c] = "committed"]
    /\ UNCHANGED <<impl, poolSize, total_seats, nextId, checkedOut, ev, usr, cnt, err, ins, outcome>>

\* await client.query('COMMIT') resolves; return insertResult.rows[0];
\* finally client.release().
CommitAck(c) ==
    /\ UNCHANGED <<prior, retry, env>>
    /\ pc[c] = "committed"
    /\ checkedOut' = checkedOut - 1
    /\ Finish(c, "Success")
    /\ UNCHANGED <<impl, poolSize, total_seats, dbVars, ev, usr, ins>>

\* Rollback without the translation of 23505 into the ConflictError.
RollbackNoTranslate(c) ==
    /\ UNCHANGED <<prior, retry, env>>
    /\ pc[c] = "rollback"
    /\ err[c] # "StorageError"
    /\ pending' = [pending EXCEPT ![c] = {}]
    /\ lockHolder' = ReleaseLocks(c)
    /\ checkedOut' = checkedOut - 1
    /\ Finish(c, err[c])
    /\ UNCHANGED <<impl, poolSize, total_seats, bookings, nextId, ev, usr, ins>>

\* Rollback followed by a second attempt: after a Conflict the call starts
\* its transaction again on the same client instead of throwing.
RollbackRetries(c) ==
    /\ UNCHANGED <<prior, retry, env>>
    /\ pc[c] = "rollback"
    /\ err[c] # "StorageError"
    /\ pending' = [pending EXCEPT ![c] = {}]
    /\ lockHolder' = ReleaseLocks(c)
    /\ IF err[c] \in {"NoSeats", "23505"}
       THEN /\ pc' = [pc EXCEPT ![c] = "begin"]
            /\ err' = [err EXCEPT ![c] = "none"]
            /\ cnt' = [cnt EXCEPT ![c] = 0]
            /\ UNCHANGED <<checkedOut, outcome>>
       ELSE /\ checkedOut' = checkedOut - 1
            /\ Finish(c, err[c])
    /\ UNCHANGED <<impl, poolSize, total_seats, bookings, nextId, ev, usr, ins>>

\* Rollback that also undoes by hand: after the refused INSERT it deletes
\* the rows of the pair, the committed one included.
RollbackCompensates(c) ==
    /\ UNCHANGED <<prior, retry, env>>
    /\ pc[c] = "rollback"
    /\ err[c] # "StorageError"
    /\ pending' = [pending EXCEPT ![c] = {}]
    /\ lockHolder' = ReleaseLocks(c)
    /\ checkedOut' = checkedOut - 1
    /\ bookings' = IF err[c] = "23505"
                   THEN {r \in bookings : ~(r.event_id = ev[c] /\ r.user_id = usr[c])}
                   ELSE bookings
    /\ Finish(c, IF err[c] = "23505" THEN "AlreadyBooked" ELSE err[c])
    /\ UNCHANGED <<impl, poolSize, total_seats, nextId, ev, usr, ins>>

\* catch: await client.query('ROLLBACK') resolves; the 23505 translation;
\* throw; finally client.release().
Rollback(c) ==
    /\ UNCHANGED <<prior, retry, env>>
    /\ pc[c] = "rollback"
    /\ err[c] # "StorageError"
    /\ pending' = [pending EXCEPT ![c] = {}]
    /\ lockHolder' = ReleaseLocks(c)
    /\ checkedOut' = checkedOut - 1
    /\ Finish(c, IF err[c] = "23505" THEN "AlreadyBooked" ELSE err[c])
    /\ UNCHANGED <<impl, poolSize, total_seats, bookings, nextId, ev, usr, ins>>

\* A rejecting ROLLBACK without the finally block: the client is not
\* released.
RollbackFailLeaks(c) ==
    /\ UNCHANGED <<prior, retry, env>>
    /\ pc[c] = "rollback"
    /\ pending' = [pending EXCEPT ![c] = {}]
    /\ lockHolder' = ReleaseLocks(c)
    /\ Finish(c, "StorageError")
    /\ UNCHANGED <<impl, poolSize, total_seats, bookings, nextId, checkedOut, ev, usr, ins>>

\* catch: await client.query('ROLLBACK') rejects (the connection is gone):
\* its error leaves the catch block; finally client.release().  The server
\* aborts the transaction of a lost connection.
RollbackFail(c) ==
    /\ UNCHANGED <<prior, retry, env>>
    /\ pc[c] = "rollback"
    /\ pending' = [pending EXCEPT ![c] = {}]
    /\ lockHolder' = ReleaseLocks(c)
    /\ checkedOut' = checkedOut - 1
    /\ Finish(c, "StorageError")
    /\ UNCHANGED <<impl, poolSize, total_seats, bookings, nextId, ev, usr, ins>>

\* A lost connection whose transaction the server keeps open: its
\* uncommitted rows and its lock stay.
ConnLostKeepsTxn(c) ==
    /\ UNCHANGED <<prior, retry, env>>
    /\ pc[c] \in {"begin", "lock", "count", "insert", "commit", "committed"}
    /\ err' = [err EXCEPT ![c] = "StorageError"]
    /\ cnt' = [cnt EXCEPT ![c] = 0]
    /\ pc' = [pc EXCEPT ![c] = "rollback"]
    /\ UNCHANGED <<impl, poolSize, total_seats, dbVars, checkedOut,
                   ev, usr, ins, outcome>>

\* A connection failure at COMMIT that is swallowed: the call returns
\* insertResult.rows[0] although its COMMIT was not confirmed.
ConnLostReturnsRow(c) ==
    /\ UNCHANGED <<prior, retry, env>>
    /\ pc[c] \in {"begin", "lock", "count", "insert", "commit", "committed"}
    /\ pending' = [pending EXCEPT ![c] = {}]
    /\ lockHolder' = ReleaseLocks(c)
    /\ IF pc[c] \in {"commit", "committed"}
       THEN /\ checkedOut' = checkedOut - 1
            /\ Finish(c, "Success")
       ELSE /\ err' = [err EXCEPT ![c] = "StorageError"]
            /\ cnt' = [cnt EXCEPT ![c] = 0]
            /\ pc' = [pc EXCEPT ![c] = "rollback"]
            /\ UNCHANGED <<checkedOut, outcome>>
    /\ UNCHANGED <<impl, poolSize, total_seats, bookings, nextId, ev, usr, ins>>

\* The connection of call c's client fails while a statement of the try
\* block is in flight: the statement rejects, the catch block is entered,
\* and the server aborts the transaction unless it has already committed.
ConnLost(c) ==
    /\ UNCHANGED <<prior, retry, env>>
    /\ pc[c] \in {"begin", "lock", "count", "insert", "commit", "committed"}
    /\ pending' = [pending EXCEPT ![c] = {}]
    /\ lockHolder' = ReleaseLocks(c)
    /\ err' = [err EXCEPT ![c] = "StorageError"]
    /\ cnt' = [cnt EXCEPT ![c] = 0]
    /\ pc' = [pc EXCEPT ![c] = "rollback"]
    /\ UNCHANGED <<impl, poolSize, total_seats, bookings, nextId, checkedOut,
                   ev, usr, ins, outcome>>

InFlight(c) == pc[c] \notin {"idle", "done"}

\* process.exit while calls are in flight (the forced shutdown timer, the
\* pool's error handler): no call continues, the server aborts every open
\* transaction, and the next process starts with a fresh pool.
Crash ==
    /\ UNCHANGED <<prior, retry, env>>
    /\ \E c \in Calls : InFlight(c)
    /\ pc' = [c \in Calls |-> IF InFlight(c) THEN "done" ELSE pc[c]]
    /\ outcome' = [c \in Calls |-> IF InFlight(c) THEN "Crashed" ELSE outcome[c]]
    /\ cnt' = [c \in Calls |-> 0]
    /\ err' = [c \in Calls |-> "none"]
    /\ pending' = [c \in Calls |-> {}]
    /\ lockHolder' = [e \in Events |-> {}]
    /\ checkedOut' = 0
    /\ UNCHANGED <<impl, poolSize, total_seats, bookings, nextId, ev, usr, ins>>

Next ==
    \/ \E c \in Calls, e \in EventIds, u \in Users : Start(c, e, u)
    \/ \E c \in Calls : PreCheck(c)
    \/ \E c \in Calls : Connect(c)
    \/ \E c \in Calls : ConnectTimeout(c)
    \/ \E c \in Calls : Begin(c)
    \/ \E c \in Calls : Lock(c)
    \/ \E c \in Calls : Count(c)
    \/ \E c \in Calls : Insert(c)
    \/ \E c \in Calls : Commit(c)
    \/ \E c \in Calls : CommitAck(c)
    \/ \E c \in Calls : Rollback(c)
    \/ \E c \in Calls : RollbackFail(c)
    \/ \E c \in Calls : ConnLost(c)
    \/ Crash

Spec == Init /\ [][Next]_vars


\* The reserve operation called directly (service or repository), with the
\* inputs of the route and with those the validator turns away.
NextDirect ==
    \/ Next
    \/ \E c \in Calls, e \in DirectEventIds, u \in DirectUsers : StartDirect(c, e, u)

SpecDirect == Init /\ [][NextDirect]_vars

\* The regular (failure-free) step of call c at its current position.
Proceed(c) ==
    \/ PreCheck(c) \/ Connect(c) \/ Begin(c) \/ Lock(c) \/ Count(c)
    \/ Insert(c) \/ Commit(c) \/ CommitAck(c) \/ Rollback(c)

\* The calls whose storage statements are answered.  The first call is left
\* out: its connection may stall without an error, and no statement_timeout,
\* query_timeout or lock_timeout is configured that would end its wait.
AnsweredCalls == Calls \ {1}

\* Scheduling: the pool's connectionTimeoutMillis timer fires, and every
\* statement of an answered call that the storage can execute is executed
\* and its continuation run.
LiveSpec ==
    /\ Spec
    /\ \A c \in AnsweredCalls :
          /\ WF_vars(Proceed(c) \/ RollbackFail(c))
          /\ WF_vars(ConnectTimeout(c))

\* ------------------------------------------------------ error surfacing

\* utils/errors.ts: the AppError subclasses and their statusCode.
AppErrors == {"NotFoundError", "BadRequestError", "ConflictError", "InternalServerError"}
statusCode(cls) ==
    CASE cls = "NotFoundError" -> 404
      [] cls = "BadRequestError" -> 400
      [] cls = "ConflictError" -> 409
      [] OTHER -> 500

\* The class of the object a finished reserve call threw: createBooking
\* throws NotFoundError and ConflictError itself and rethrows every other
\* error as it came from pg (an Error that is no AppError); schema.parse of
\* validateBody throws the ZodError.
ThrownClass(o) ==
    CASE o = "NotFound" -> "NotFoundError"
      [] o \in {"NoSeats", "AlreadyBooked"} -> "ConflictError"
      [] o = "ValidationError" -> "ZodError"
      [] OTHER -> "Error"

\* errorHandler with the AppError branch left out: every error that is no
\* ZodError is answered 500.
errorHandlerNoAppError(cls) ==
    IF cls = "ZodError"
    THEN [status |-> 400, error |-> "Validation Error"]
    ELSE [status |-> 500, error |-> "Internal Server Error"]

\* middleware errorHandler: ZodError, AppError, anything else.
errorHandler(cls) ==
    IF cls = "ZodError"
    THEN [status |-> 400, error |-> "Validation Error"]
    ELSE IF cls \in AppErrors
    THEN [status |-> statusCode(cls), error |-> cls]
    ELSE [status |-> 500, error |-> "Internal Server Error"]

\* BookingController.createBooking: res.status(201).json(booking) on
\* success, next(error) otherwise, which ends in errorHandler.  (NestJS:
\* @HttpCode(CREATED); NotFoundException, ConflictException and the
\* BadRequestException of the ValidationPipe carry 404, 409 and 400, and
\* AllExceptionsFilter answers every other error with 500.)
httpStatus(o) ==
    IF o = "Success" THEN 201 ELSE errorHandler(ThrownClass(o)).status

\* ------------------------------------------------------- service level

\* What a list operation hands to its caller: the rows, or the error thrown.
Result(t, S) == [typeof |-> t, rows |-> S]

\* BookingRepository.createBooking run on its own on the committed state:
\* the existence check, the capacity check, the INSERT under the unique
\* constraint, in the order of the code.
repositoryCreateBooking(e, u) ==
    IF e \notin Events
    THEN [outcome |-> "NotFound", bookings |-> bookings]
    ELSE IF CountBookings(e) >= total_seats[e]
    THEN [outcome |-> "NoSeats", bookings |-> bookings]
    ELSE IF UniqueViolation(e, u)
    THEN [outcome |-> "AlreadyBooked", bookings |-> bookings]
    ELSE [outcome |-> "Success",
          bookings |-> bookings \cup {Row(nextId, e, u)}]

\* BookingService.createBooking (Express: getEventById, then the
\* repository) and BookingsService.createBooking (NestJS: the repository).
serviceCreateBooking(i, e, u) ==
    IF i = "express" /\ e \notin Events
    THEN [outcome |-> "NotFound", bookings |-> bookings]
    ELSE repositoryCreateBooking(e, u)

\* BookingService.getBookingsByEventId (Express: getEventById throws
\* NotFoundError, then the repository) and
\* BookingsService.getBookingsByEventId (NestJS: the repository).
serviceGetBookingsByEventId(i, e) ==
    IF i = "express" /\ e \notin Events
    THEN Result("NotFoundError", {})
    ELSE Result("Array", getBookingsByEventId(e))

\* BookingService.getBookingsByUserId / BookingsService.getBookingsByUserId.
serviceGetBookingsByUserId(i, u) ==
    Result("Array", getBookingsByUserId(u))

\* ----------------------------------------------------------- the route

\* validateBody: schema.parse throws, next(error), errorHandler answers;
\* the controller is not reached.
Rejected(c, e, u) ==
    /\ pc[c] = "idle"
    /\ \A d \in Calls : d < c => pc[d] # "idle"
    /\ ev' = [ev EXCEPT ![c] = e]
    /\ usr' = [usr EXCEPT ![c] = u]
    /\ pc' = [pc EXCEPT ![c] = "done"]
    /\ outcome' = [outcome EXCEPT ![c] = "ValidationError"]
    /\ UNCHANGED <<impl, poolSize, total_seats, dbVars, checkedOut, cnt, err, ins,
                   prior, retry, env>>

\* validateBody letting every body through.
validateBodyAbsent(c, e, u) ==
    /\ pc[c] = "idle"
    /\ u \in Users => u \in NextUsers
    /\ Invoke(c, e, u)

\* router.post('/reserve', validateBody(createBookingSchema), controller):
\* a request with any body arrives.
validateBody(c, e, u) ==
    /\ pc[c] = "idle"
    /\ u \in Users => u \in NextUsers
    /\ IF ValidInput(e, u) THEN Invoke(c, e, u) ELSE Rejected(c, e, u)

NextHttp ==
    \/ Next
    \/ \E c \in Calls, e \in DirectEventIds, u \in DirectUsers : validateBody(c, e, u)

SpecHttp == Init /\ [][NextHttp]_vars

\* ----------------------------------------------- a writer without the lock

\* A writer that opens a transaction and goes straight to the INSERT: no
\* FOR UPDATE on the event, no count.
InsertWithoutLock(c) ==
    /\ UNCHANGED <<prior, retry, env>>
    /\ pc[c] = "lock"
    /\ pc' = [pc EXCEPT ![c] = "insert"]
    /\ UNCHANGED <<impl, poolSize, total_seats, dbVars, checkedOut, ev, usr, cnt, err, ins, outcome>>

NextBypass ==
    \/ Next
    \/ \E c \in Calls : InsertWithoutLock(c)

SpecBypass == Init /\ [][NextBypass]_vars

\* ------------------------------------------------------------ created_at

\* created_at TIMESTAMP DEFAULT CURRENT_TIMESTAMP: the start time of the
\* transaction that inserted the row.
created_at(r) == ts[CHOOSE c \in Calls : ins[c] = r.id]

\* ORDER BY created_at ASC
RECURSIVE OrderByCreatedAtAsc(_)
OrderByCreatedAtAsc(S) ==
    IF S = {} THEN <<>>
    ELSE LET r == CHOOSE x \in S : \A y \in S : created_at(x) <= created_at(y)
         IN <<r>> \o OrderByCreatedAtAsc(S \ {r})

\* ORDER BY created_at DESC
RECURSIVE OrderByCreatedAtDesc(_)
OrderByCreatedAtDesc(S) ==
    IF S = {} THEN <<>>
    ELSE LET r == CHOOSE x \in S : \A y \in S : created_at(y) <= created_at(x)
         IN <<r>> \o OrderByCreatedAtDesc(S \ {r})

\* getBookingsByEventId with the rows in ascending order.
getBookingsByEventIdAsc(e) == OrderByCreatedAtAsc(getBookingsByEventId(e))

\* BookingRepository.getBookingsByEventId, result.rows in the order of the
\* query.
getBookingsByEventIdRows(e) == OrderByCreatedAtDesc(getBookingsByEventId(e))

NextOrder ==
    \/ \E c \in Calls, e \in EventIds, u \in Users : Start(c, e, u)
    \/ \E c \in Calls : PreCheck(c)
    \/ \E c \in Calls : Connect(c)
    \/ \E c \in Calls : ConnectTimeout(c)
    \/ \E c \in Calls : BeginAt(c)
    \/ \E c \in Calls : Lock(c)
    \/ \E c \in Calls : Count(c)
    \/ \E c \in Calls : Insert(c)
    \/ \E c \in Calls : Commit(c)
    \/ \E c \in Calls : CommitAck(c)
    \/ \E c \in Calls : Rollback(c)
    \/ \E c \in Calls : RollbackFail(c)
    \/ \E c \in Calls : ConnLost(c)
    \/ Crash

SpecOrder == Init /\ [][NextOrder]_vars

\* ------------------------------------------------------------- fairness

\* Scheduling when every storage statement that is not waiting for a lock
\* returns: every step a call can take is taken, and the pool's
\* connectionTimeoutMillis timer fires.
FairSpec ==
    /\ Spec
    /\ \A c \in Calls :
          /\ WF_vars(Proceed(c) \/ RollbackFail(c))
          /\ WF_vars(ConnectTimeout(c))

\* -------------------------------------------------------------- shutdown

\* process.on('SIGTERM' / 'SIGINT') and the uncaughtException handler:
\* gracefulShutdown calls server.close(callback), which stops the server
\* accepting, and arms the 10 s timer.  On a server that has closed already
\* the callback runs on the next tick: the pool is ending, its pool.end()
\* rejects and the catch exits with 1.
Signal ==
    /\ proc = "running"
    /\ signals < MaxSignals
    /\ env' = [env EXCEPT
                   !.signals = signals + 1,
                   !.server = IF server = "listening" THEN "closing" ELSE server,
                   !.proc = IF server = "closed" THEN "exit1" ELSE proc]
    /\ UNCHANGED <<impl, poolSize, total_seats, dbVars, checkedOut, pc, ev, usr, cnt,
                   err, ins, outcome, prior, retry>>

\* gracefulShutdown calling pool.end() at once instead of in the callback
\* of server.close.
ServerClosedEarly ==
    /\ proc = "running"
    /\ server = "closing"
    /\ env' = [env EXCEPT !.server = "closed", !.poolEnd = "ending"]
    /\ UNCHANGED <<impl, poolSize, total_seats, dbVars, checkedOut, pc, ev, usr, cnt,
                   err, ins, outcome, prior, retry>>

\* The server's 'close' event, once no request is in flight: every callback
\* given to server.close runs up to its await pool.end().  A pool without
\* clients ends at once and the first callback exits with 0; otherwise the
\* pool starts closing its idle clients, and the pool.end() of a second
\* callback rejects, whose catch exits with 1.
ServerClosed ==
    /\ proc = "running"
    /\ server = "closing"
    /\ \A c \in Calls : pc[c] \in {"idle", "done"}
    /\ \/ env' = [env EXCEPT !.server = "closed", !.poolEnd = "ended",
                               !.proc = "exit0"]
       \/ env' = [env EXCEPT !.server = "closed", !.poolEnd = "ending",
                               !.proc = IF signals >= 2 THEN "exit1" ELSE proc]
    /\ UNCHANGED <<impl, poolSize, total_seats, dbVars, checkedOut, pc, ev, usr, cnt,
                   err, ins, outcome, prior, retry>>

\* await pool.end() resolves (every client is closed); process.exit(0).
PoolEnded ==
    /\ proc = "running"
    /\ poolEnd = "ending"
    /\ checkedOut = 0
    /\ env' = [env EXCEPT !.poolEnd = "ended", !.proc = "exit0"]
    /\ UNCHANGED <<impl, poolSize, total_seats, dbVars, checkedOut, pc, ev, usr, cnt,
                   err, ins, outcome, prior, retry>>

\* The setTimeout of gracefulShutdown fires: process.exit(1).  The calls in
\* flight end with the process and the server aborts their transactions.
ForcedExit ==
    /\ proc = "running"
    /\ signals >= 1
    /\ env' = [env EXCEPT !.proc = "exit1"]
    /\ pc' = [c \in Calls |-> IF InFlight(c) THEN "done" ELSE pc[c]]
    /\ outcome' = [c \in Calls |-> IF InFlight(c) THEN "Crashed" ELSE outcome[c]]
    /\ cnt' = [c \in Calls |-> 0]
    /\ err' = [c \in Calls |-> "none"]
    /\ pending' = [c \in Calls |-> {}]
    /\ lockHolder' = [e \in Events |-> {}]
    /\ checkedOut' = 0
    /\ UNCHANGED <<impl, poolSize, total_seats, bookings, nextId, ev, usr, ins,
                   prior, retry>>

\* app.listen: a request is accepted while the server is listening.
Accept(c, e, u) ==
    /\ proc = "running"
    /\ server = "listening"
    /\ Start(c, e, u)

\* A step of reserve call c in the running process.
Handle(c) ==
    /\ proc = "running"
    /\ \/ PreCheck(c) \/ Connect(c) \/ ConnectTimeout(c) \/ Begin(c) \/ Lock(c)
       \/ Count(c) \/ Insert(c) \/ Commit(c) \/ CommitAck(c) \/ Rollback(c)
       \/ RollbackFail(c) \/ ConnLost(c)

NextShutdown ==
    \/ \E c \in Calls, e \in EventIds, u \in Users : Accept(c, e, u)
    \/ \E c \in Calls : Handle(c)
    \/ Signal
    \/ ServerClosed
    \/ PoolEnded
    \/ ForcedExit

SpecShutdown == Init /\ [][NextShutdown]_vars

\* -------------------------------------------------------------- claims

Started(c) == pc[c] # "idle"
Done(c) == pc[c] = "done"
\* The call was cut short by a storage failure, a connection time-out or a
\* process exit, rather than answered by the reservation protocol.
Faulted(c) == outcome[c] \in {"StorageError", "Crashed"}
\* The calls that have been issued for event e / for the pair (e, u).
CallsOn(e) == {c \in Calls : Started(c) /\ ev[c] = e}
CallsFor(e, u) == {c \in CallsOn(e) : usr[c] = u}
With(S, o) == {c \in S : outcome[c] = o}
\* The calls between the granted FOR UPDATE and the execution of COMMIT.
InSection(e) == {c \in CallsOn(e) : pc[c] \in {"count", "insert", "commit"}}

\* C1: no oversell.  In every reachable state every event has at most
\* total_seats committed bookings.
C1_NoOversell ==
    \A e \in Events : CountBookings(e) <= total_seats[e]

\* C1 witness: an event is full and a later call on it was turned away.
C1_Witness ==
    \E e \in Events :
        /\ CountBookings(e) = total_seats[e]
        /\ With(CallsOn(e), "NoSeats") # {}

\* C2: no duplicate.  No two committed rows share (event_id, user_id).
C2_NoDuplicate ==
    \A r1, r2 \in bookings :
        (r1.event_id = r2.event_id /\ r1.user_id = r2.user_id) => r1 = r2

\* C2 witness: a second INSERT of a committed pair was attempted and
\* rejected by the constraint.
C2_Witness ==
    \E e \in Events, u \in Users :
        /\ checkBookingExists(e, u)
        /\ With(CallsFor(e, u), "AlreadyBooked") # {}

\* C3: when M > N calls with pairwise distinct user ids have been issued on
\* an event of capacity N, all have finished and none was cut short by a
\* storage failure, exactly N succeeded and exactly M - N failed with
\* 'No seats available'.
C3_ExactlyNSucceed ==
    \A e \in Events :
        LET S == CallsOn(e) IN
        ( /\ Cardinality(S) > total_seats[e]
          /\ \A c, d \in S : c # d => usr[c] # usr[d]
          /\ \A c \in S : Done(c) /\ ~Faulted(c) )
        => /\ Cardinality(With(S, "Success")) = total_seats[e]
           /\ Cardinality(With(S, "NoSeats")) = Cardinality(S) - total_seats[e]

\* C3 witness: more finished calls of distinct users than seats.
C3_Witness ==
    \E e \in Events :
        LET S == CallsOn(e) IN
        /\ Cardinality(S) > total_seats[e]
        /\ \A c, d \in S : c # d => usr[c] # usr[d]
        /\ \A c \in S : Done(c) /\ ~Faulted(c)

\* C4 as stated: K >= 2 finished calls with the same (eventId, userId) on an
\* existing event give exactly 1 success and K - 1 'already booked'.
C4_Original ==
    \A e \in Events, u \in Users :
        LET S == CallsFor(e, u) IN
        ( /\ Cardinality(S) >= 2
          /\ \A c \in S : Done(c) /\ ~Faulted(c) )
        => /\ Cardinality(With(S, "Success")) = 1
           /\ Cardinality(With(S, "AlreadyBooked")) = Cardinality(S) - 1

\* C4 amended: the same, for an event that is not full once the calls have
\* finished (so that every one of them passed the capacity check).
C4_OneSuccessRestAlreadyBooked ==
    \A e \in Events, u \in Users :
        LET S == CallsFor(e, u) IN
        ( /\ Cardinality(S) >= 2
          /\ \A c \in S : Done(c) /\ ~Faulted(c)
          /\ CountBookings(e) < total_seats[e] )
        => /\ Cardinality(With(S, "Success")) = 1
           /\ Cardinality(With(S, "AlreadyBooked")) = Cardinality(S) - 1

\* C4 witness: two finished calls of one user on an event with a seat left.
C4_Witness ==
    \E e \in Events, u \in Users :
        LET S == CallsFor(e, u) IN
        /\ Cardinality(S) >= 2
        /\ \A c \in S : Done(c) /\ ~Faulted(c)
        /\ CountBookings(e) < total_seats[e]

\* C5 as stated: on an event with total_seats = 1, a call that arrives
\* after a reserve of the same pair has succeeded returns 'already booked'.
C5_Original ==
    \A c \in Calls :
        ( /\ Done(c) /\ ~Faulted(c)
          /\ ev[c] \in Events /\ total_seats[ev[c]] = 1
          /\ prior[c] )
        => outcome[c] = "AlreadyBooked"

\* C5 amended: such a call returns the Conflict 'No seats available': the
\* event is full, and the capacity check comes before the INSERT.
C5_RepeatOnFullEventNoSeats ==
    \A c \in Calls :
        ( /\ Done(c) /\ ~Faulted(c)
          /\ ev[c] \in Events /\ total_seats[ev[c]] = 1
          /\ prior[c] )
        => outcome[c] = "NoSeats"

\* C5 witness: alice holds the only seat and her second call has finished.
C5_Witness ==
    \E c \in Calls :
        /\ Done(c) /\ ~Faulted(c)
        /\ ev[c] \in Events /\ total_seats[ev[c]] = 1
        /\ prior[c]

\* C6: per-event mutual exclusion.  At most one call per event is between
\* the granted FOR UPDATE and its COMMIT, that call is the holder of the
\* event's row lock, and nobody else holds it.
C6_MutualExclusion ==
    /\ \A e \in Events : Cardinality(InSection(e)) <= 1
    /\ \A e \in Events : \A c \in InSection(e) : lockHolder[e] = {c}

\* C6 witness: one call is inside the section while another call for the
\* same event is held at its FOR UPDATE.
C6_Witness ==
    \E e \in Events : \E c, d \in CallsOn(e) :
        /\ c \in InSection(e)
        /\ d # c /\ pc[d] = "lock"

\* No other call on the event of call c is in flight.
AloneOnEvent(c) ==
    \A d \in Calls \ {c} : InFlight(d) => ev[d] # ev[c]

\* C7 as stated: cross-event independence.  A call whose event has no other
\* call in flight can always take its next step, and cannot fail with a
\* time-out: calls on other events neither block it nor make it fail.
C7_CrossEventIndependence ==
    \A c \in Calls :
        (InFlight(c) /\ AloneOnEvent(c))
        => (ENABLED Proceed(c)) /\ ~(ENABLED ConnectTimeout(c))

\* The count a call holds is the event's committed count, from the count to
\* the call's COMMIT or ROLLBACK.
C8_CountInv ==
    \A c \in Calls :
        /\ pc[c] \in {"insert", "commit"} => cnt[c] = CountBookings(ev[c])
        /\ (pc[c] = "rollback" /\ err[c] = "NoSeats")
           => /\ cnt[c] = CountBookings(ev[c])
              /\ cnt[c] >= total_seats[ev[c]]

\* No step changes the event's committed count while a call stays between
\* its FOR UPDATE and its COMMIT.
C8_CountStep ==
    \A c \in Calls :
        (pc[c] \in {"count", "insert", "commit"}
         /\ pc'[c] \in {"count", "insert", "commit"})
        => CountBookings(ev[c])' = CountBookings(ev[c])

\* C8: the count compared against total_seats is the number of bookings of
\* the event committed before the call acquired the lock; it cannot change
\* between the lock, the count and the call's own COMMIT or ROLLBACK, so no
\* stale count is ever used.
C8_CountIsCurrent == []C8_CountInv /\ [][C8_CountStep]_vars

\* C8 witness: a call has counted a booking committed by an earlier call and
\* is about to insert.
C8_Witness ==
    \E c \in Calls : pc[c] = "insert" /\ cnt[c] >= 1

\* The row that call c inserted (meaningful when ins[c] # 0).
RowOf(c) == Row(ins[c], ev[c], usr[c])
HasCommittedRow(c) == ins[c] # 0 /\ RowOf(c) \in bookings

\* C9 as stated: a call that returned an error has no committed row.
C9_Original ==
    \A c \in Calls :
        (Done(c) /\ outcome[c] \notin {"Success", "Crashed"})
        => ~HasCommittedRow(c)

\* C9 amended: a call that returned NotFound or a Conflict, or a storage
\* error raised before its COMMIT was sent, has no committed row, and no
\* row is visible before its call's COMMIT has been executed; a call whose
\* COMMIT raised the storage error has its row either committed or absent.
C9_AllOrNothing ==
    /\ \A c \in Calls :
        (Done(c) /\ outcome[c] \in {"NotFound", "NoSeats", "AlreadyBooked"})
        => ins[c] = 0 /\ pending[c] = {}
    /\ \A c \in Calls :
        (Done(c) /\ outcome[c] # "Success" /\ HasCommittedRow(c))
        => outcome[c] \in {"StorageError", "Crashed"}
    /\ \A r \in bookings : \E c \in Calls :
        /\ r = RowOf(c)
        /\ pc[c] \in {"committed", "rollback", "done"}
    /\ \A c \in Calls : Done(c) => pending[c] = {}

\* C9 witness: a call inserted its row, then failed before the server
\* committed, and the row is gone.
C9_Witness ==
    \E c \in Calls :
        /\ Done(c) /\ outcome[c] = "StorageError"
        /\ ins[c] # 0 /\ RowOf(c) \notin bookings

C11_Inv ==
    \A c \in Calls :
        outcome[c] = "Success" => checkBookingExists(ev[c], usr[c])

\* The steps, for C11: the COMMIT of a reserve on E makes the pair exist and
\* lowers the number getAvailableSeats(E) denotes by exactly 1; nothing but
\* the COMMIT of a reserve on E changes getAvailableSeats(E); a pair that
\* exists keeps existing.
C11_Step ==
    /\ \A c \in Calls :
        (pc[c] = "commit" /\ pc'[c] = "committed")
        => /\ checkBookingExists(ev[c], usr[c])'
           /\ parseInt(getAvailableSeats(ev[c]))'
                = parseInt(getAvailableSeats(ev[c])) - 1
    /\ \A e \in Events :
        (getAvailableSeats(e))' # getAvailableSeats(e)
        => \E c \in Calls :
               ev[c] = e /\ pc[c] = "commit" /\ pc'[c] = "committed"
    /\ \A e \in EventIds, u \in Users :
        checkBookingExists(e, u) => checkBookingExists(e, u)'

\* C11: read-after-write.  Once reserve(E, U) has returned success, every
\* later exists(E, U) is true, and availableSeats(E) is exactly 1 lower than
\* immediately before that commit, for every caller, as long as no further
\* reserve on E commits.
C11_ReadAfterWrite == []C11_Inv /\ [][C11_Step]_vars

\* C11 witness: a reserve has returned success while another call has been
\* issued; the pair exists and one seat less than the total is available.
C11_Witness ==
    \E c \in Calls :
        /\ outcome[c] = "Success"
        /\ checkBookingExists(ev[c], usr[c])
        /\ parseInt(getAvailableSeats(ev[c])) = total_seats[ev[c]] - 1
        /\ \E d \in Calls \ {c} : Started(d)

\* C12: for an eventId that matches no event, a reserve that was answered
\* (not cut short by a storage failure or a process exit) failed with
\* NotFound and inserted nothing, no row of bookings (committed or not)
\* carries that eventId, and availableSeats fails with NotFound; in every
\* state, whatever the other calls do.
C12_MissingEventNotFound ==
    /\ \A c \in Calls :
        (Done(c) /\ ev[c] = MissingEvent /\ ~Faulted(c))
        => outcome[c] = "NotFound" /\ ins[c] = 0
    /\ \A r \in bookings \cup UNION {pending[c] : c \in Calls} :
        r.event_id # MissingEvent
    /\ getAvailableSeats(MissingEvent) = NotFoundError

\* C12 witness: a reserve on the missing event was answered while another
\* call was in flight.
C12_Witness ==
    \E c \in Calls :
        /\ Done(c) /\ ev[c] = MissingEvent /\ outcome[c] = "NotFound"
        /\ \E d \in Calls \ {c} : InFlight(d)

\* C13 as stated: for every existing event, availableSeats returns the
\* integer total_seats minus the number of committed bookings.
C13_AvailableSeats ==
    \A e \in Events :
        getAvailableSeats(e) = jsNumber(total_seats[e] - CountBookings(e))

\* The value that availableSeats returns denotes that number, also for an
\* event without bookings (the LEFT JOIN keeps the event's row).
C13_DenotedValue ==
    \A e \in Events :
        /\ getAvailableSeats(e) # NotFoundError
        /\ parseInt(getAvailableSeats(e)) = total_seats[e] - CountBookings(e)

\* The translation step, as stated: a call whose INSERT failed with 23505
\* ends with 'User has already booked this event'.
C14_AlwaysStep ==
    \A c \in Calls :
        (pc[c] = "rollback" /\ err[c] = "23505" /\ pc'[c] = "done")
        => outcome'[c] = "AlreadyBooked"

\* The translation step when the ROLLBACK of the catch block succeeded.
C14_AnsweredStep ==
    \A c \in Calls :
        ( /\ pc[c] = "rollback" /\ err[c] = "23505" /\ pc'[c] = "done"
          /\ outcome'[c] \notin {"StorageError", "Crashed"} )
        => outcome'[c] = "AlreadyBooked"

\* 'User has already booked this event' comes only from an INSERT that the
\* unique constraint refused, never from the capacity check.
C14_OnlyStep ==
    /\ \A c \in Calls :
        (pc[c] # "done" /\ pc'[c] = "done" /\ outcome'[c] = "AlreadyBooked")
        => pc[c] = "rollback" /\ err[c] = "23505"
    /\ \A c \in Calls :
        (err[c] # "23505" /\ err'[c] = "23505")
        => pc[c] = "insert" /\ UniqueViolation(ev[c], usr[c])

C15_StorageFailureIsUnavailable ==
    \A c \in Calls :
        (Done(c) /\ outcome[c] = "StorageError")
        => /\ ThrownClass(outcome[c]) \in AppErrors
           /\ errorHandler(ThrownClass(outcome[c])).status
                \notin {400, 404, 409, 500}

\* C16 as stated: a direct call with an eventId that is not positive or a
\* userId that is empty or longer than 255 characters is rejected as an
\* invalid argument and creates no reservation.
C16_DirectCallRejected ==
    \A c \in Calls :
        (Done(c) /\ ~ValidInput(ev[c], usr[c]) /\ ~Faulted(c))
        => /\ ThrownClass(outcome[c]) = "BadRequestError"
           /\ ins[c] = 0
           /\ ~checkBookingExists(ev[c], usr[c])

\* C17 as stated: bounded wait.  An answered call that waits for a pooled
\* client or for the event's row lock eventually returns.
C17_BoundedWait ==
    \A c \in AnsweredCalls :
        (pc[c] \in {"precheck", "connect", "lock"}) ~> Done(c)

\* The wait for a pooled client alone is bounded (connectionTimeoutMillis).
C17_PoolWaitBounded ==
    \A c \in AnsweredCalls :
        (pc[c] \in {"precheck", "connect"}) ~> (pc[c] \notin {"precheck", "connect"})

\* The order of the statements of createBooking.
Rank(p) ==
    CASE p = "idle" -> 0
      [] p = "precheck" -> 1
      [] p = "connect" -> 2
      [] p = "begin" -> 3
      [] p = "lock" -> 4
      [] p = "count" -> 5
      [] p = "insert" -> 6
      [] p = "commit" -> 7
      [] p = "committed" -> 8
      [] p = "rollback" -> 9
      [] OTHER -> 10

\* No more INSERTs have been attempted than calls have been issued.
C18_Inv ==
    nextId - 1 <= Cardinality({c \in Calls : Started(c)})

\* A call only moves forward through its statements, and from the catch
\* block it only returns.
C18_Step ==
    \A c \in Calls :
        pc'[c] # pc[c]
        => /\ Rank(pc'[c]) > Rank(pc[c])
           /\ pc[c] = "rollback" => pc'[c] = "done"

\* C18: no internal retry.  A reserve call runs at most one transaction and
\* attempts at most one INSERT; after a failure it returns the error without
\* running any statement again.
C18_NoInternalRetry == []C18_Inv /\ [][C18_Step]_vars

\* C18 witness: a call succeeded, a second one was refused by the unique
\* constraint and returned, and exactly two INSERTs were attempted.
C18_Witness ==
    \E c, d \in Calls :
        /\ outcome[c] = "Success" /\ outcome[d] = "AlreadyBooked"
        /\ nextId = 3

\* C19: listByUser returns, for every userId, exactly the rows of the calls
\* of that user whose COMMIT was executed, among them the row of every call
\* that returned success, and the empty result when there is none.
C19_ListByUser ==
    /\ \A u \in Users :
        getBookingsByUserId(u)
          = {RowOf(c) : c \in {d \in Calls : usr[d] = u /\ HasCommittedRow(d)}}
    /\ \A c \in Calls :
        outcome[c] = "Success" => RowOf(c) \in getBookingsByUserId(usr[c])
    /\ \A u \in Users :
        (\A c \in Calls : usr[c] = u => ~HasCommittedRow(c))
        => getBookingsByUserId(u) = {}

\* C19 witness: one user has a committed reservation, another user's call
\* inserted a row that was never committed, and that user's list is empty.
C19_Witness ==
    \E u, v \in Users :
        /\ getBookingsByUserId(u) # {}
        /\ getBookingsByUserId(v) = {}
        /\ \E c \in Calls : usr[c] = v /\ Done(c) /\ ins[c] # 0

\* C20: exists(eventId, userId) is true if and only if some call with
\* exactly that pair has a committed row, and it is false for an eventId
\* that matches no event.
C20_Exists ==
    /\ \A e \in EventIds, u \in Users :
        checkBookingExists(e, u)
          <=> \E c \in Calls : ev[c] = e /\ usr[c] = u /\ HasCommittedRow(c)
    /\ \A u \in Users : checkBookingExists(MissingEvent, u) = FALSE

\* C20 witness: on one event a pair exists and another pair, whose row was
\* inserted and never committed, does not.
C20_Witness ==
    \E e \in Events, u, v \in Users :
        /\ checkBookingExists(e, u)
        /\ ~checkBookingExists(e, v)
        /\ \E c \in Calls : ev[c] = e /\ usr[c] = v /\ ins[c] # 0

\* The committed rows of the calls on event e.
CommittedRowsOn(e) ==
    {RowOf(c) : c \in {d \in Calls : ev[d] = e /\ HasCommittedRow(d)}}

\* C21 as stated: the service's getBookingsByEventId fails with NotFound
\* for an event that does not exist, and returns exactly the committed
\* reservations of an event that exists.
C21_ListByEventNotFound ==
    \A e \in EventIds :
        LET r == serviceGetBookingsByEventId(impl, e) IN
        IF e \notin Events
        THEN r.typeof = "NotFoundError"
        ELSE r.typeof = "Array" /\ r.rows = CommittedRowsOn(e)

\* C22 as stated: on every storage state and every input the NestJS
\* services give the same outcome kind and the same resulting reservation
\* set as the Express services.
C22_NestPreservesExpress ==
    /\ \A e \in EventIds, u \in Users :
        serviceCreateBooking("nest", e, u) = serviceCreateBooking("express", e, u)
    /\ \A e \in EventIds :
        serviceGetBookingsByEventId("nest", e)
          = serviceGetBookingsByEventId("express", e)
    /\ \A u \in Users :
        serviceGetBookingsByUserId("nest", u) = serviceGetBookingsByUserId("express", u)

\* The part of the equivalence that holds: createBooking and
\* getBookingsByUserId agree, and getBookingsByEventId agrees on the events
\* that exist.
C22_AgreeOnExistingEvents ==
    /\ \A e \in EventIds, u \in Users :
        serviceCreateBooking("nest", e, u) = serviceCreateBooking("express", e, u)
    /\ \A e \in Events :
        serviceGetBookingsByEventId("nest", e)
          = serviceGetBookingsByEventId("express", e)
    /\ \A u \in Users :
        serviceGetBookingsByUserId("nest", u) = serviceGetBookingsByUserId("express", u)

\* C23: the answer to POST /api/bookings/reserve.  A returned reservation
\* is committed and answered 201; a nonexistent event is answered 404; both
\* Conflicts are answered 409, so a request that repeats a pair already
\* reserved successfully is answered 409; any other error is answered 500.
C23_HttpMapping ==
    \A c \in Calls :
        (Done(c) /\ outcome[c] # "Crashed")
        => /\ outcome[c] = "Success"
                => httpStatus(outcome[c]) = 201 /\ HasCommittedRow(c)
           /\ (ev[c] \notin Events /\ ~Faulted(c))
                => outcome[c] = "NotFound" /\ httpStatus(outcome[c]) = 404
           /\ outcome[c] \in {"NoSeats", "AlreadyBooked"}
                => httpStatus(outcome[c]) = 409
           /\ (prior[c] /\ ~Faulted(c)) => httpStatus(outcome[c]) = 409
           /\ outcome[c] = "StorageError" => httpStatus(outcome[c]) = 500

\* C23 witness: a request was answered 201 and the request repeating its
\* pair was answered 409.
C23_Witness ==
    \E c, d \in Calls :
        /\ httpStatus(outcome[d]) = 201
        /\ Done(c) /\ prior[c] /\ ev[c] = ev[d] /\ usr[c] = usr[d]
        /\ httpStatus(outcome[c]) = 409

\* A body the claim calls invalid: event_id not positive, user_id empty or
\* longer than 255 characters.
InvalidRequest(e, u) ==
    \/ e <= 0
    \/ UserIdLength(u) = 0
    \/ UserIdLength(u) > MaxUserIdLength

\* C24: a request with an invalid body is answered 400 by the validator
\* before the service is invoked: the call never reaches a storage
\* statement, inserts nothing, and no row carries its values.
C24_ValidatorRejects ==
    \A c \in Calls :
        (Started(c) /\ InvalidRequest(ev[c], usr[c]))
        => /\ pc[c] = "done"
           /\ outcome[c] = "ValidationError"
           /\ httpStatus(outcome[c]) = 400
           /\ ins[c] = 0 /\ pending[c] = {}
           /\ \A r \in bookings \cup UNION {pending[d] : d \in Calls} :
                ~InvalidRequest(r.event_id, r.user_id)

\* C24 witness: a request with an empty user_id was answered 400 after
\* another request had reserved a seat.
C24_Witness ==
    \E c, d \in Calls :
        /\ outcome[d] = "Success"
        /\ Done(c) /\ usr[c] = EmptyUser /\ outcome[c] = "ValidationError"

\* C25: retry safety.  A reserve(E, U) that arrives after an attempt for the
\* same pair ended with a storage error although it had committed never
\* inserts a row, the pair keeps exactly one row, and when the retry is
\* answered it is answered with a Conflict.
C25_RetrySafe ==
    \A d \in Calls :
        retry[d]
        => /\ ins[d] = 0 /\ pending[d] = {}
           /\ Cardinality({r \in bookings :
                             r.event_id = ev[d] /\ r.user_id = usr[d]}) = 1
           /\ (Done(d) /\ ~Faulted(d))
                => outcome[d] \in {"NoSeats", "AlreadyBooked"}

\* C25 witness: the retry reached the INSERT and was refused by the unique
\* constraint.
C25_Witness ==
    \E d \in Calls :
        retry[d] /\ Done(d) /\ outcome[d] = "AlreadyBooked"

\* The steps, for C26: committed rows stay, events do not change, and the
\* reservation set changes only by the COMMIT of a reserve, which adds
\* exactly the row of its pair and leaves what the reads return for every
\* other event as it was.
C26_Step ==
    /\ bookings \subseteq bookings'
    /\ total_seats' = total_seats
    /\ bookings' # bookings
       => \E c \in Calls :
            /\ pc[c] = "commit" /\ pc'[c] = "committed"
            /\ bookings' \ bookings = {Row(ins[c], ev[c], usr[c])}
            /\ \A e \in Events \ {ev[c]} :
                 /\ (getAvailableSeats(e))' = getAvailableSeats(e)
                 /\ (getBookingsByEventId(e))' = getBookingsByEventId(e)

\* C26: committed reservations are immutable and the reservation set only
\* grows; no operation changes an event; a successful reserve(E, U) adds
\* exactly one row (E, U) and leaves every other row and the availability
\* of every other event unchanged.
C26_OnlyGrows == [][C26_Step]_vars

\* C26 witness: two reservations on two different events are committed.
C26_Witness ==
    \E r1, r2 \in bookings : r1.event_id # r2.event_id

\* C27: in every reachable state every event has total_seats > 0 and the
\* event_id of every reservation, committed or not, is the id of an event.
C27_StorageInvariants ==
    /\ \A e \in Events : total_seats[e] > 0
    /\ \A r \in bookings \cup UNION {pending[c] : c \in Calls} :
        r.event_id \in Events

\* C27 witness: a reservation is stored and a reserve on an id without
\* event has been turned away.
C27_Witness ==
    /\ bookings # {}
    /\ \E c \in Calls : ev[c] = MissingEvent /\ outcome[c] = "NotFound"

\* The steps, for C28: whatever a call is answered is what the repository's
\* checks give on the committed state the call sees under the event's lock
\* (an id without event has no lock to hold); a success adds the row of the
\* pair; 'No seats available' is decided by the count, before any INSERT.
C28_Step ==
    /\ \A c \in Calls :
        ( /\ pc[c] \in {"precheck", "rollback"} /\ pc'[c] = "done"
          /\ outcome'[c] \notin {"StorageError", "Crashed"} )
        => /\ outcome'[c] = repositoryCreateBooking(ev[c], usr[c]).outcome
           /\ outcome'[c] # "Success"
           /\ (ev[c] \in Events) => lockHolder[ev[c]] = {c}
           /\ bookings' = bookings
    /\ \A c \in Calls :
        (pc[c] = "commit" /\ pc'[c] = "committed")
        => /\ repositoryCreateBooking(ev[c], usr[c]).outcome = "Success"
           /\ lockHolder[ev[c]] = {c}
           /\ bookings' = bookings \cup {Row(ins[c], ev[c], usr[c])}
           /\ Row(ins[c], ev[c], usr[c]) \notin bookings
    /\ \A c \in Calls :
        (pc[c] # "done" /\ pc'[c] = "done" /\ outcome'[c] = "Success")
        => pc[c] = "committed"
    /\ \A c \in Calls :
        (err[c] # "NoSeats" /\ err'[c] = "NoSeats")
        => pc[c] = "count" /\ nextId' = nextId /\ pending' = pending

\* C28: the outcome of reserve(E, U) is a function of the committed state
\* at the moment the call holds E's lock, with the priority NotFound, then
\* 'No seats available', then 'User has already booked this event', then
\* success with exactly one new row (E, U); on a full event no INSERT is
\* attempted.
C28_OutcomeFunction == [][C28_Step]_vars

\* C28 witness: the pair is reserved and the event is full, and the call
\* repeating the pair was answered 'No seats available'.
C28_Witness ==
    \E c \in Calls :
        /\ Done(c) /\ outcome[c] = "NoSeats"
        /\ checkBookingExists(ev[c], usr[c])
        /\ CountBookings(ev[c]) >= total_seats[ev[c]]

\* Call c completes a SELECT on events or bookings in this step.
ReadsStorage(c) ==
    \/ /\ pc[c] = "precheck" /\ pc'[c] \in {"connect", "done"}
       /\ outcome'[c] \notin {"StorageError", "Crashed"}
    \/ /\ pc[c] = "lock" /\ pc'[c] \in {"count", "rollback"}
       /\ err'[c] # "StorageError"
    \/ /\ pc[c] = "count" /\ pc'[c] \in {"insert", "rollback"}
       /\ err'[c] # "StorageError"

\* The steps, for C29: a read of a call on an existing event leaves the
\* call holding the event's lock, and NotFound is decided by the locked
\* read of the transaction.
C29_Step ==
    /\ \A c \in Calls :
        (ReadsStorage(c) /\ ev[c] \in Events) => lockHolder'[ev[c]] = {c}
    /\ \A c \in Calls :
        (outcome[c] # "NotFound" /\ outcome'[c] = "NotFound")
        => pc[c] = "rollback" /\ err[c] = "NotFound"

\* C29 as stated: lock first.  Within a reserve call no read of event or
\* reservation state happens before the event's lock is acquired, and the
\* existence check that decides NotFound is the locked read, on the Express
\* path and on the NestJS path.
C29_LockFirst == [][C29_Step]_vars

\* What holds in every state, for C30: a call that returned a Reservation
\* has its row committed and returned by every read.
C30_Inv ==
    \A c \in Calls :
        outcome[c] = "Success"
        => /\ ins[c] # 0
           /\ RowOf(c) \in bookings
           /\ checkBookingExists(ev[c], usr[c])
           /\ RowOf(c) \in getBookingsByEventId(ev[c])
           /\ RowOf(c) \in getBookingsByUserId(usr[c])

\* The steps, for C30: a Reservation is returned only when COMMIT was
\* confirmed; a call whose statement failed returns an error.
C30_Step ==
    \A c \in Calls :
        /\ (pc[c] # "done" /\ pc'[c] = "done" /\ outcome'[c] = "Success")
           => pc[c] = "committed" /\ err[c] = "none"
        /\ (err[c] = "StorageError" \/ err'[c] = "StorageError")
           => outcome'[c] # "Success"

\* C30: success means committed.  Whenever reserve(E, U) returns a
\* Reservation, a row with that id, event_id = E and user_id = U has been
\* committed and is visible to every later read; if COMMIT fails the call
\* returns an error, never a Reservation.
C30_SuccessMeansCommitted == []C30_Inv /\ [][C30_Step]_vars

\* C30 witness: one call returned its Reservation, and another call, whose
\* COMMIT failed after its INSERT, returned the storage error.
C30_Witness ==
    \E c, d \in Calls :
        /\ outcome[c] = "Success" /\ RowOf(c) \in bookings
        /\ outcome[d] = "StorageError" /\ ins[d] # 0

\* The rows of all open transactions.
AllPending == UNION {pending[c] : c \in Calls}
SamePair(r, q) == r.event_id = q.event_id /\ r.user_id = q.user_id

\* C31: the uniqueness of (event_id, user_id) does not depend on the lock.
\* With writers that insert without taking the event's FOR UPDATE lock
\* running next to regular reserve calls, no two committed rows share the
\* pair, and no two rows of one pair exist at once, committed or not.
C31_UniqueWithoutLock ==
    /\ \A r, q \in bookings : SamePair(r, q) => r = q
    /\ \A r, q \in bookings \cup AllPending : SamePair(r, q) => r = q

\* C31 witness: a writer that holds no event lock has been refused by the
\* unique constraint (23505) because the pair is committed.
C31_Witness ==
    \E c \in Calls :
        /\ pc[c] = "rollback" /\ err[c] = "23505"
        /\ c \notin lockHolder[ev[c]]
        /\ UniqueViolation(ev[c], usr[c])

\* r stands before q in the sequence L.
Before(L, r, q) ==
    \E i, j \in 1..Len(L) : i < j /\ L[i] = r /\ L[j] = q
\* The sequence L without its element r.
Without(L, r) == SelectSeq(L, LAMBDA x : x # r)

\* C32 as stated, on the steps: when a reservation for event E commits, it
\* is the first row of what getBookingsByEventId(E) returns from then on
\* (it committed after every other row of E).
C32_Original ==
    [][\A c \in Calls :
          (pc[c] = "commit" /\ pc'[c] = "committed")
          => Head((getBookingsByEventIdRows(ev[c]))') = Row(ins[c], ev[c], usr[c])]_vars

\* What holds in every state, for C32 amended: the result holds exactly the
\* committed rows of the event, each once, in strictly descending order of
\* created_at, which is a time at which a transaction began.
C32_Inv ==
    \A e \in Events :
        LET L == getBookingsByEventIdRows(e) IN
        /\ Len(L) = Cardinality(getBookingsByEventId(e))
        /\ {L[i] : i \in 1..Len(L)} = getBookingsByEventId(e)
        /\ \A i, j \in 1..Len(L) :
             i < j => created_at(L[i]) > created_at(L[j])
        /\ \A i \in 1..Len(L) : created_at(L[i]) \in 1..now

\* The steps, for C32 amended: the row that commits stands before exactly
\* the rows whose transaction began before its own, and the rows already
\* listed keep their order.
C32_Step ==
    \A c \in Calls :
        (pc[c] = "commit" /\ pc'[c] = "committed")
        => LET new == Row(ins[c], ev[c], usr[c])
               L2 == (getBookingsByEventIdRows(ev[c]))'
           IN /\ \A r \in getBookingsByEventId(ev[c]) :
                    Before(L2, new, r) <=> ts[c] > created_at(r)
              /\ Without(L2, new) = getBookingsByEventIdRows(ev[c])

\* C32 amended: getBookingsByEventId returns the event's committed
\* reservations in descending order of created_at, the start time of the
\* inserting transaction: of two reservations of E, the one whose
\* transaction began later comes first, whichever committed later.
C32_NewestByTransactionStart == []C32_Inv /\ [][C32_Step]_vars

\* C32 witness: of two committed reservations of one event, the one that
\* was inserted and committed later (the larger id) has the older
\* created_at: its transaction began first and waited for the lock.
C32_Witness ==
    \E r, q \in bookings :
        /\ r.event_id = q.event_id
        /\ r.id < q.id
        /\ created_at(r) > created_at(q)

\* The call has a pooled client checked out.
HoldsClient(c) ==
    pc[c] \in {"begin", "lock", "count", "insert", "commit", "committed", "rollback"}

\* C33: connection accounting.  The clients checked out are exactly those
\* of the calls between pool.connect and client.release, one each, on every
\* path; their number never exceeds the pool's maximum, and it is 0 when no
\* call is in flight.
C33_ConnectionAccounting ==
    /\ checkedOut = Cardinality({c \in Calls : HoldsClient(c)})
    /\ checkedOut <= poolSize
    /\ (\A c \in Calls : ~InFlight(c)) => checkedOut = 0

\* C33 witness: every call has ended, one of them through a failed
\* statement after its INSERT, and no client is checked out.
C33_Witness ==
    /\ \A c \in Calls : Done(c)
    /\ \E c \in Calls :
         outcome[c] = "StorageError" /\ ins[c] # 0 /\ RowOf(c) \notin bookings
    /\ checkedOut = 0

\* C34 as stated: whenever a call gives its client back, its transaction
\* has been ended by a COMMIT or a ROLLBACK that succeeded.
C34_ReleasedAfterEnd ==
    [][\A c \in Calls :
          (HoldsClient(c) /\ pc'[c] = "done" /\ outcome'[c] # "Crashed")
          => \/ pc[c] = "committed"
             \/ pc[c] = "rollback" /\ outcome'[c] # "StorageError"]_vars

\* What the storage guarantees all the same: a call without a client has no
\* row lock and no uncommitted row (the server aborts the transaction of a
\* connection it lost).
C34_NoLockSurvives ==
    \A c \in Calls :
        ~HoldsClient(c)
        => /\ pending[c] = {}
           /\ \A e \in Events : c \notin lockHolder[e]

\* The error createBooking decided on before the ROLLBACK.
FirstFailure(e) == IF e = "23505" THEN "AlreadyBooked" ELSE e

\* C35 as stated: the error a failed reserve call returns is the one of the
\* step that failed first, whether the ROLLBACK that follows succeeds or
\* fails.
C35_FirstFailureWins ==
    [][\A c \in Calls :
          (pc[c] = "rollback" /\ pc'[c] = "done" /\ outcome'[c] # "Crashed")
          => outcome'[c] = FirstFailure(err[c])]_vars

\* The part that holds: when the ROLLBACK succeeds, the call returns the
\* error of the step that failed first.
C35_FirstFailureAfterRollback ==
    [][\A c \in Calls :
          ( /\ pc[c] = "rollback" /\ pc'[c] = "done"
            /\ outcome'[c] \notin {"Crashed", "StorageError"} )
          => outcome'[c] = FirstFailure(err[c])]_vars

\* What holds in every state, for C36: a call waits for a client only
\* before it has one, and a transaction holds at most one row lock.
C36_Inv ==
    /\ \A c \in Calls :
        pc[c] \in {"precheck", "connect"}
        => /\ pending[c] = {}
           /\ \A e \in Events : c \notin lockHolder[e]
    /\ checkedOut = Cardinality({c \in Calls : pc[c] \notin {"idle", "precheck", "connect", "done"}})
    /\ \A c \in Calls : Cardinality({e \in Events : c \in lockHolder[e]}) <= 1

\* C36: deadlock freedom and termination.  When every storage statement
\* that is not waiting for a lock returns, every reserve call that was
\* issued returns an outcome, on the same or on different events and with
\* any pool size; no call holds a pooled client while it waits for one, and
\* each transaction takes at most one row lock.
C36_Terminates ==
    /\ []C36_Inv
    /\ \A c \in Calls : Started(c) ~> Done(c)

\* C36 witness: one call waits for the row lock another call holds, while
\* the pool has no free client left.
C36_Witness ==
    \E c, d \in Calls :
        /\ pc[c] = "lock" /\ ev[c] \in Events
        /\ lockHolder[ev[c]] = {d}
        /\ checkedOut = poolSize

C38_Inv ==
    /\ \A r, q \in bookings \cup AllPending : r.id = q.id => r = q
    /\ \A r \in bookings \cup AllPending : r.id \in 1..(nextId - 1)
    /\ \A c \in Calls : ins[c] < nextId

\* The steps, for C38: the sequence never goes back, an INSERT takes the
\* sequence's next value, and the row that commits has a larger id than
\* every row of its event committed before.
C38_Step ==
    /\ nextId' >= nextId
    /\ \A c \in Calls :
        ins'[c] # ins[c] => ins'[c] = nextId /\ nextId' = nextId + 1
    /\ \A c \in Calls :
        (pc[c] = "commit" /\ pc'[c] = "committed")
        => \A r \in bookings : r.event_id = ev[c] => r.id < ins[c]

\* C38: reservation ids are unique, and for a fixed event they increase
\* with commit order; an id consumed by an insert that was rolled back is
\* not used again.
C38_IdsFollowCommitOrder == []C38_Inv /\ [][C38_Step]_vars

\* C38 witness: two reservations of one event are committed.
C38_Witness ==
    \E r, q \in bookings : r.event_id = q.event_id /\ r.id # q.id

\* What holds in every state, for C39: while pool.end() has been called and
\* the process runs, the server accepts nothing and no request is in
\* flight; the process has exited with 0 only with the pool closed.
C39_Inv ==
    /\ (poolEnd # "open" /\ proc = "running")
        => server = "closed" /\ \A c \in Calls : ~InFlight(c)
    /\ proc = "exit0" => poolEnd = "ended"
    /\ poolEnd # "open" => signals >= 1

\* The steps every shutdown takes, for C39: a request is accepted only by a
\* listening server, and pool.end() is called in the step in which the
\* server has closed with no request in flight.
C39_Order ==
    /\ \A c \in Calls : (pc[c] = "idle" /\ pc'[c] # "idle") => server = "listening"
    /\ (poolEnd = "open" /\ poolEnd' # "open")
        => /\ server = "closing" /\ server' = "closed"
           /\ \A c \in Calls : ~InFlight(c)
    /\ (proc = "running" /\ proc' = "exit0") => poolEnd' = "ended"

\* The step is the forced-shutdown timer firing.
C39_TimerFires ==
    /\ signals >= 1 /\ signals' = signals
    /\ proc = "running" /\ proc' = "exit1"
    /\ server' = server /\ poolEnd' = poolEnd

\* The step is a rejected pool.end() leaving through the catch block.
C39_PoolEndRejects ==
    /\ signals' >= 2
    /\ proc = "running" /\ proc' = "exit1"
    /\ server' = "closed"
    /\ poolEnd' = "ending"
    /\ \A c \in Calls : ~InFlight(c)

====
